---- MODULE Spec2Model ----
(***************************************************************************)
(* Model of homework.py: the fitness tracker calculation module.           *)
(*                                                                         *)
(* The program reads (workout_type, data) packages in order, builds a      *)
(* Training object for each (read_package), computes distance, mean speed  *)
(* and calories (show_training_info) and prints one line (get_message).    *)
(*                                                                         *)
(* Numbers.  Sensor values are non-negative Python ints.  The arithmetic   *)
(* of the program is modelled exactly: a number is a fraction n/d of two   *)
(* unbounded naturals, each a little-endian sequence of base-10000 limbs.  *)
(* Binary floating-point rounding (an error below 1e-12 on the values      *)
(* here) is not modelled.  A division by zero yields the exception value   *)
(* ZeroDivisionError, which every arithmetic operator propagates, as a     *)
(* raised Python exception unwinds the expression that contains it.        *)
(*                                                                         *)
(* Text.  A Python str is a sequence of Unicode code points.               *)
(***************************************************************************)
EXTENDS Integers, Sequences, FiniteSets, TLC

VARIABLES packages, idx, pc, training, info, stdout, err

vars == <<packages, idx, pc, training, info, stdout, err>>

-----------------------------------------------------------------------------
(* Unbounded naturals.                                                     *)

Limb == 100 * 100

LimbHead(a) == IF a = <<>> THEN 0 ELSE Head(a)
LimbTail(a) == IF a = <<>> THEN <<>> ELSE Tail(a)
Cons(x, r) == IF x = 0 /\ r = <<>> THEN <<>> ELSE <<x>> \o r

RECURSIVE BNat(_)
BNat(k) == IF k = 0 THEN <<>> ELSE Cons(k % Limb, BNat(k \div Limb))

RECURSIVE BAdd(_, _, _)
BAdd(a, b, c) ==
    IF a = <<>> /\ b = <<>> THEN BNat(c)
    ELSE LET s == LimbHead(a) + LimbHead(b) + c
         IN  Cons(s % Limb, BAdd(LimbTail(a), LimbTail(b), s \div Limb))

RECURSIVE BMulSmall(_, _, _)
BMulSmall(a, k, c) ==
    IF a = <<>> THEN BNat(c)
    ELSE LET p == Head(a) * k + c
         IN  Cons(p % Limb, BMulSmall(Tail(a), k, p \div Limb))

RECURSIVE BMul(_, _)
BMul(a, b) ==
    IF b = <<>> \/ a = <<>> THEN <<>>
    ELSE BAdd(BMulSmall(a, Head(b), 0), Cons(0, BMul(a, Tail(b))), 0)

RECURSIVE BLeAt(_, _, _)
BLeAt(a, b, i) ==
    IF i = 0 THEN TRUE
    ELSE IF a[i] # b[i] THEN a[i] < b[i]
    ELSE BLeAt(a, b, i - 1)

BLe(a, b) == IF Len(a) # Len(b) THEN Len(a) < Len(b) ELSE BLeAt(a, b, Len(a))

RECURSIVE BSub(_, _, _)
BSub(a, b, borrow) ==
    IF a = <<>> THEN <<>>
    ELSE LET x == Head(a) - LimbHead(b) - borrow
         IN  IF x < 0 THEN Cons(x + Limb, BSub(Tail(a), LimbTail(b), 1))
                      ELSE Cons(x, BSub(Tail(a), LimbTail(b), 0))

RECURSIVE QuotLimb(_, _, _, _)
QuotLimb(cur, b, lo, hi) ==
    IF lo = hi THEN lo
    ELSE LET mid == (lo + hi + 1) \div 2
         IN  IF BLe(BMulSmall(b, mid, 0), cur) THEN QuotLimb(cur, b, mid, hi)
                                               ELSE QuotLimb(cur, b, lo, mid - 1)

RECURSIVE BDivMod(_, _)
BDivMod(a, b) ==
    IF a = <<>> THEN [q |-> <<>>, r |-> <<>>]
    ELSE LET up  == BDivMod(Tail(a), b)
             cur == Cons(Head(a), up.r)
             k   == QuotLimb(cur, b, 0, Limb - 1)
         IN  [q |-> Cons(k, up.q), r |-> BSub(cur, BMulSmall(b, k, 0), 0)]

-----------------------------------------------------------------------------
(* Python numbers and the exception a division raises.                     *)

ZeroDivisionError == [exc |-> "ZeroDivisionError"]

IsExc(x) == "exc" \in DOMAIN x

Num(k) == [n |-> BNat(k), d |-> BNat(1)]
Dec(k, scale) == [n |-> BNat(k), d |-> BNat(scale)]

Mul(x, y) ==
    IF IsExc(x) THEN x ELSE IF IsExc(y) THEN y
    ELSE [n |-> BMul(x.n, y.n), d |-> BMul(x.d, y.d)]

Div(x, y) ==
    IF IsExc(x) THEN x ELSE IF IsExc(y) THEN y
    ELSE IF y.n = <<>> THEN ZeroDivisionError
    ELSE [n |-> BMul(x.n, y.d), d |-> BMul(x.d, y.n)]

Add(x, y) ==
    IF IsExc(x) THEN x ELSE IF IsExc(y) THEN y
    ELSE [n |-> BAdd(BMul(x.n, y.d), BMul(y.n, x.d), 0), d |-> BMul(x.d, y.d)]

Pow2(x) == Mul(x, x)

-----------------------------------------------------------------------------
(* Text: decimal digits and the f-string conversion '.3f'.                  *)

RECURSIVE DecDigits(_, _)
(* The decimal digits of k, zero-padded on the left to `width` digits. *)
DecDigits(k, width) ==
    IF k < 10 /\ width <= 1 THEN <<48 + k>>
    ELSE DecDigits(k \div 10, width - 1) \o <<48 + (k % 10)>>

RECURSIVE BigDigits(_)
(* The decimal digits of an unbounded natural, without leading zeros. *)
BigDigits(a) ==
    IF Len(a) <= 1 THEN DecDigits(LimbHead(a), 1)
    ELSE BigDigits(Tail(a)) \o DecDigits(Head(a), 4)

RECURSIVE Pow10(_)
Pow10(p) == IF p = 0 THEN 1 ELSE 10 * Pow10(p - 1)

(* format(x, '.<prec>f'): x rounded to `prec` decimals, then its digits, a  *)
(* point and exactly `prec` digits.  A tie goes to the even neighbour, as   *)
(* the conversion of an exactly representable value does; for a value that *)
(* binary floating point only approximates, the program rounds the nearest *)
(* double, and which way a tie of the exact value then goes is not decided *)
(* by this model (no property below depends on it).                        *)
Format_f(x, prec) ==
    LET dm    == BDivMod(BMul(x.n, BNat(Pow10(prec))), x.d)
        twice == BAdd(dm.r, dm.r, 0)
        up    == IF twice = x.d THEN LimbHead(dm.q) % 2 = 1 ELSE ~BLe(twice, x.d)
        k     == IF up THEN BAdd(dm.q, <<>>, 1) ELSE dm.q
        parts == BDivMod(k, BNat(Pow10(prec)))
    IN  BigDigits(parts.q) \o <<46>> \o DecDigits(LimbHead(parts.r), prec)

-----------------------------------------------------------------------------
(* class InfoMessage                                                       *)

InfoMessage(training_type, duration, distance, speed, calories) ==
    IF IsExc(duration) THEN duration
    ELSE IF IsExc(distance) THEN distance
    ELSE IF IsExc(speed) THEN speed
    ELSE IF IsExc(calories) THEN calories
    ELSE [training_type |-> training_type,
          duration      |-> duration,
          distance      |-> distance,
          speed         |-> speed,
          calories      |-> calories]

(* The literal pieces of the f-string of get_message, as code points. *)
TextType     == <<1058, 1080, 1087, 32, 1090, 1088, 1077, 1085, 1080, 1088,
                  1086, 1074, 1082, 1080, 58, 32>>
TextDuration == <<59, 32, 1044, 1083, 1080, 1090, 1077, 1083, 1100, 1085,
                  1086, 1089, 1090, 1100, 58, 32>>
TextDistance == <<32, 1095, 46, 59, 32, 1044, 1080, 1089, 1090, 1072, 1085,
                  1094, 1080, 1103, 58, 32>>
TextSpeed    == <<32, 1082, 1084, 59, 32, 1057, 1088, 46, 32, 1089, 1082,
                  1086, 1088, 1086, 1089, 1090, 1100, 58, 32>>
TextCalories == <<32, 1082, 1084, 47, 1095, 59, 32, 1055, 1086, 1090, 1088,
                  1072, 1095, 1077, 1085, 1086, 32, 1082, 1082, 1072, 1083,
                  58, 32>>
TextEnd      == <<46>>

(* Faulty variant: the values are formatted with '.2f'. *)
get_message_TwoDecimals(self) ==
    TextType \o self.training_type
    \o TextDuration \o Format_f(self.duration, 2)
    \o TextDistance \o Format_f(self.distance, 2)
    \o TextSpeed \o Format_f(self.speed, 2)
    \o TextCalories \o Format_f(self.calories, 2)
    \o TextEnd

get_message(self) ==
    TextType \o self.training_type
    \o TextDuration \o Format_f(self.duration, 3)
    \o TextDistance \o Format_f(self.distance, 3)
    \o TextSpeed \o Format_f(self.speed, 3)
    \o TextCalories \o Format_f(self.calories, 3)
    \o TextEnd

-----------------------------------------------------------------------------
(* class Training and its subclasses.  An object is a record of its class  *)
(* name and its attributes; attribute values are the Python ints given.    *)

M_IN_KM == 1000
MIN_IN_HOUR == 60
CENT_IN_M == 100

(* Class attributes, looked up along the class hierarchy. *)
(* Faulty variant: Swimming does not override the step length. *)
LEN_STEP_NotOverridden(cls) == Dec(65, 100)

LEN_STEP(cls) == IF cls = "Swimming" THEN Dec(138, 100) ELSE Dec(65, 100)
CALORIES_MEAN_SPEED_MULTIPLIER == 18
CALORIES_MEAN_SPEED_SHIFT(cls) ==
    IF cls = "Swimming" THEN Dec(11, 10) ELSE Dec(179, 100)
SportsWalking_CONSTANT_MULTIPLIER == Dec(35, 1000)
SPEED_HEIGHT_MULTIPLIER == Dec(29, 1000)
CONSTANT_TO_TRANSFORM_K_H_TO_M_S == Dec(278, 1000)
Swimming_CONSTANT_MULTIPLIER == 2

(* __class__.__name__ as text. *)
ClassName(cls) ==
    CASE cls = "Running"       -> <<82, 117, 110, 110, 105, 110, 103>>
      [] cls = "SportsWalking" -> <<83, 112, 111, 114, 116, 115, 87, 97, 108,
                                    107, 105, 110, 103>>
      [] cls = "Swimming"      -> <<83, 119, 105, 109, 109, 105, 110, 103>>

Training__init__(self, action, duration, weight) ==
    [action |-> action, duration |-> duration, weight |-> weight] @@ self

SportsWalking__init__(self, action, duration, weight, height) ==
    [height |-> height] @@ Training__init__(self, action, duration, weight)

(* Faulty variant: the two pool values bound in the wrong order. *)
Swimming__init__Swapped(self, action, duration, weight, length_pool, count_pool) ==
    [length_pool |-> count_pool, count_pool |-> length_pool]
        @@ Training__init__(self, action, duration, weight)

Swimming__init__(self, action, duration, weight, length_pool, count_pool) ==
    [length_pool |-> length_pool, count_pool |-> count_pool]
        @@ Training__init__(self, action, duration, weight)

get_distance(self) ==
    Div(Mul(Num(self.action), LEN_STEP(self.cls)), Num(M_IN_KM))

(* Faulty variant: the distance is divided by the weight. *)
Training_get_mean_speed_ByWeight(self) ==
    Div(get_distance(self), Num(self.weight))

Training_get_mean_speed(self) ==
    Div(get_distance(self), Num(self.duration))

(* Faulty variant: Swimming does not override get_mean_speed. *)
Swimming_get_mean_speed_NotOverridden(self) ==
    Div(get_distance(self), Num(self.duration))

Swimming_get_mean_speed(self) ==
    Div(Div(Mul(Num(self.length_pool), Num(self.count_pool)), Num(M_IN_KM)),
        Num(self.duration))

get_mean_speed(self) ==
    IF self.cls = "Swimming" THEN Swimming_get_mean_speed(self)
    ELSE Training_get_mean_speed(self)

(* Faulty variant: the hours are not converted to minutes. *)
Running_get_spent_calories_InHours(self) ==
    Mul(Div(Mul(Add(Mul(Num(CALORIES_MEAN_SPEED_MULTIPLIER),
                        get_mean_speed(self)),
                    CALORIES_MEAN_SPEED_SHIFT(self.cls)),
                Num(self.weight)),
            Num(M_IN_KM)),
        Num(self.duration))

Running_get_spent_calories(self) ==
    Mul(Mul(Div(Mul(Add(Mul(Num(CALORIES_MEAN_SPEED_MULTIPLIER),
                            get_mean_speed(self)),
                        CALORIES_MEAN_SPEED_SHIFT(self.cls)),
                    Num(self.weight)),
                Num(M_IN_KM)),
            Num(self.duration)),
        Num(MIN_IN_HOUR))

(* Faulty variant: the speed in m/s is not squared. *)
SportsWalking_get_spent_calories_NotSquared(self) ==
    Mul(Add(Mul(SportsWalking_CONSTANT_MULTIPLIER, Num(self.weight)),
            Mul(Mul(Div(Mul(get_mean_speed(self),
                            CONSTANT_TO_TRANSFORM_K_H_TO_M_S),
                        Div(Num(self.height), Num(CENT_IN_M))),
                    SPEED_HEIGHT_MULTIPLIER),
                Num(self.weight))),
        Mul(Num(self.duration), Num(MIN_IN_HOUR)))

SportsWalking_get_spent_calories(self) ==
    Mul(Add(Mul(SportsWalking_CONSTANT_MULTIPLIER, Num(self.weight)),
            Mul(Mul(Div(Pow2(Mul(get_mean_speed(self),
                                 CONSTANT_TO_TRANSFORM_K_H_TO_M_S)),
                        Div(Num(self.height), Num(CENT_IN_M))),
                    SPEED_HEIGHT_MULTIPLIER),
                Num(self.weight))),
        Mul(Num(self.duration), Num(MIN_IN_HOUR)))

Swimming_get_spent_calories(self) ==
    Mul(Mul(Mul(Add(get_mean_speed(self), CALORIES_MEAN_SPEED_SHIFT(self.cls)),
                Num(Swimming_CONSTANT_MULTIPLIER)),
            Num(self.weight)),
        Num(self.duration))

get_spent_calories(self) ==
    CASE self.cls = "Running"       -> Running_get_spent_calories(self)
      [] self.cls = "SportsWalking" -> SportsWalking_get_spent_calories(self)
      [] self.cls = "Swimming"      -> Swimming_get_spent_calories(self)

show_training_info(self) ==
    InfoMessage(ClassName(self.cls),
                Num(self.duration),
                get_distance(self),
                get_mean_speed(self),
                get_spent_calories(self))

-----------------------------------------------------------------------------
(* read_package: the class lookup and the call of the class on data. *)

training_classes ==
    [code \in {"SWM", "RUN", "WLK"} |->
        CASE code = "SWM" -> "Swimming"
          [] code = "RUN" -> "Running"
          [] code = "WLK" -> "SportsWalking"]

(* The positional parameters of cls.__init__ after self, and the function  *)
(* that defines it (Running inherits Training.__init__).                   *)
InitParams(cls) ==
    CASE cls = "Running"       -> <<"action", "duration", "weight">>
      [] cls = "SportsWalking" -> <<"action", "duration", "weight", "height">>
      [] cls = "Swimming"      -> <<"action", "duration", "weight",
                                    "length_pool", "count_pool">>

InitOwner(cls) == IF cls = "Running" THEN "Training" ELSE cls

KeyError(key) == [exc |-> "KeyError", key |-> key]

(* The TypeError of a call whose positional arguments do not match: the    *)
(* interpreter names the missing parameters, or counts self on both sides. *)
TypeError(cls, given) ==
    LET params == InitParams(cls)
    IN  IF given < Len(params)
        THEN [exc |-> "TypeError", func |-> InitOwner(cls),
              missing |-> SubSeq(params, given + 1, Len(params))]
        ELSE [exc |-> "TypeError", func |-> InitOwner(cls),
              takes |-> Len(params) + 1, given |-> given + 1]

Call(cls, data) ==
    LET self == [cls |-> cls]
    IN  IF Len(data) # Len(InitParams(cls)) THEN TypeError(cls, Len(data))
        ELSE CASE cls = "Running" ->
                    Training__init__(self, data[1], data[2], data[3])
               [] cls = "SportsWalking" ->
                    SportsWalking__init__(self, data[1], data[2], data[3], data[4])
               [] cls = "Swimming" ->
                    Swimming__init__(self, data[1], data[2], data[3], data[4],
                                  data[5])

read_package(workout_type, data) ==
    IF workout_type \notin DOMAIN training_classes THEN KeyError(workout_type)
    ELSE Call(training_classes[workout_type], data)

-----------------------------------------------------------------------------
(* The script: the package list and the loop over it.                      *)

None == [none |-> TRUE]

(* The list the script is shipped with. *)
PACKAGES ==
    << <<"SWM", <<720, 1, 80, 25, 40>> >>,
       <<"RUN", <<15000, 1, 75>> >>,
       <<"WLK", <<9000, 1, 75, 180>> >> >>

(* Bounds of the inputs explored. *)
MaxData == 6
MaxPackages == 3

WorkoutTypes == {"SWM", "RUN", "WLK", "XYZ", "run"}
Values == {0, 1, 40}

DataOfLen(k) == [1..k -> Values]
AnyPackage ==
    {<<w, d>> : w \in WorkoutTypes, d \in UNION {DataOfLen(k) : k \in 0..MaxData}}

(* Packages a run of several is built from: the shipped ones and ones that *)
(* fail in read_package or in the calculation.                             *)
SomePackages ==
    {PACKAGES[i] : i \in 1..Len(PACKAGES)}
        \cup { <<"XYZ", <<1, 1, 1>> >>,
               <<"RUN", <<1, 2>> >>,
               <<"WLK", <<9000, 1, 75, 0>> >>,
               <<"SWM", <<720, 0, 80, 25, 40>> >> }

PackageLists ==
    {<<p>> : p \in AnyPackage}
        \cup UNION {[1..k -> SomePackages] : k \in 0..MaxPackages}

Init ==
    /\ packages \in PackageLists
    /\ idx = 1
    /\ pc = "read"
    /\ training = None
    /\ info = None
    /\ stdout = <<>>
    /\ err = None

(* Line 166: training = read_package(workout_type, data). *)
ReadPackage ==
    /\ pc = "read"
    /\ idx <= Len(packages)
    /\ LET r == read_package(packages[idx][1], packages[idx][2])
       IN  IF IsExc(r)
           THEN /\ err' = r
                /\ pc' = "failed"
                /\ UNCHANGED training
           ELSE /\ training' = r
                /\ pc' = "main"
                /\ UNCHANGED err
    /\ UNCHANGED <<packages, idx, info, stdout>>

(* Faulty variant of the step below: an exception of the calculation is    *)
(* swallowed and the loop goes on to the next package.                     *)
Main_Swallowing ==
    /\ pc = "main"
    /\ LET i == show_training_info(training)
       IN  IF IsExc(i)
           THEN UNCHANGED <<info, stdout>>
           ELSE /\ info' = i
                /\ stdout' = Append(stdout, get_message(i))
    /\ idx' = idx + 1
    /\ pc' = "read"
    /\ UNCHANGED <<packages, training, err>>

(* Line 167: main(training), that is show_training_info then print. *)
Main ==
    /\ pc = "main"
    /\ LET i == show_training_info(training)
       IN  IF IsExc(i)
           THEN /\ err' = i
                /\ pc' = "failed"
                /\ UNCHANGED <<info, stdout, idx>>
           ELSE /\ info' = i
                /\ stdout' = Append(stdout, get_message(i))
                /\ idx' = idx + 1
                /\ pc' = "read"
                /\ UNCHANGED err
    /\ UNCHANGED <<packages, training>>

(* The for loop is exhausted: the script ends normally. *)
Exit ==
    /\ pc = "read"
    /\ idx > Len(packages)
    /\ pc' = "done"
    /\ UNCHANGED <<packages, idx, training, info, stdout, err>>

Next == ReadPackage \/ Main \/ Exit

Spec == Init /\ [][Next]_vars

-----------------------------------------------------------------------------
(* Vocabulary of the properties.                                           *)

Known == {"RUN", "WLK", "SWM"}

(* Two results are numbers, and the same number. *)
Same(x, y) ==
    /\ ~IsExc(x)
    /\ ~IsExc(y)
    /\ BMul(x.n, y.d) = BMul(y.n, x.d)

(* The number of values each workout type requires. *)
Arity(code) ==
    CASE code = "RUN" -> 3
      [] code = "WLK" -> 4
      [] code = "SWM" -> 5

Resolvable(p) == p[1] \in Known /\ Len(p[2]) = Arity(p[1])

(* A line has just been printed for the object in `training`. *)
Fresh == info # None /\ pc \in {"read", "done"}

LastLine == stdout[Len(stdout)]

IsDigit(c) == c \in 48..57

(* s[i] belongs to a numeral: a digit, or a point between two digits. *)
InNumeral(s, i) ==
    /\ i \in 1..Len(s)
    /\ \/ IsDigit(s[i])
       \/ /\ s[i] = 46
          /\ 1 < i
          /\ i < Len(s)
          /\ IsDigit(s[i - 1])
          /\ IsDigit(s[i + 1])

(* The numerals of a line, in order: its maximal runs of numeral           *)
(* characters.                                                             *)
Numerals(s) ==
    LET starts  == {i \in 1..Len(s) : InNumeral(s, i) /\ ~InNumeral(s, i - 1)}
        ends    == {i \in 1..Len(s) : InNumeral(s, i) /\ ~InNumeral(s, i + 1)}
        nth(S, k) == CHOOSE i \in S : Cardinality({j \in S : j < i}) = k - 1
    IN  [k \in 1..Cardinality(starts) |->
            SubSeq(s, nth(starts, k), nth(ends, k))]

RECURSIVE ScaledValue(_, _)
(* The natural number that the first k characters of a numeral denote once *)
(* the point is dropped: 1.000 denotes 1000.                               *)
ScaledValue(t, k) ==
    IF k = 0 THEN <<>>
    ELSE IF t[k] = 46 THEN ScaledValue(t, k - 1)
    ELSE BMulSmall(ScaledValue(t, k - 1), 10, t[k] - 48)

(* t is <integer digits> . <exactly three digits>. *)
ThreeDecimals(t) ==
    /\ Len(t) >= 5
    /\ t[Len(t) - 3] = 46
    /\ \A i \in 1..Len(t) : i # Len(t) - 3 => IsDigit(t[i])

(* The numeral t, read back, is within half a thousandth of x. *)
ShowsValue(t, x) ==
    LET shown == ScaledValue(t, Len(t))
        a     == BMul(BNat(2000), x.n)
        b     == BMul(BMulSmall(shown, 2, 0), x.d)
    IN  /\ BLe(a, BAdd(b, x.d, 0))
        /\ BLe(b, BAdd(a, x.d, 0))

-----------------------------------------------------------------------------
(* C1: for every workout type other than RUN, WLK, SWM and every data,     *)
(* read_package fails with an UnknownTypeError whose message lists the     *)
(* valid codes RUN, WLK, SWM, and no Training object is constructed.       *)
(* The code fails with the KeyError of the dictionary lookup instead,      *)
(* whose only argument is the unknown code.                                *)
C1_UnknownTypeError ==
    (pc = "failed" /\ packages[idx][1] \notin Known) =>
        /\ err.exc = "UnknownTypeError"
        /\ "codes" \in DOMAIN err
        /\ err.codes = Known
        /\ idx = 1 => training = None

(* C2: for every recognized workout type and every data whose length       *)
(* differs from the number of values the type requires (3, 4, 5),          *)
(* read_package fails with an ArityMismatchError whose message states the  *)
(* number given and the number required.  The code fails with the          *)
(* interpreter's TypeError, which names the missing parameters or counts   *)
(* self on both sides.                                                     *)
C2_ArityMismatchError ==
    (/\ pc = "failed"
     /\ packages[idx][1] \in Known
     /\ Len(packages[idx][2]) # Arity(packages[idx][1])) =>
        /\ err.exc = "ArityMismatchError"
        /\ "given" \in DOMAIN err
        /\ "required" \in DOMAIN err
        /\ err.given = Len(packages[idx][2])
        /\ err.required = Arity(packages[idx][1])

(* C3: for every recognized workout type with data of exactly the required *)
(* length, read_package returns an object of the class the code maps to    *)
(* (RUN Running, WLK the walking class SportsWalking, SWM Swimming) whose  *)
(* attributes hold the values positionally: action, duration, weight, then *)
(* height, or length_pool and count_pool.                                  *)
C3_Dispatch ==
    (/\ idx <= Len(packages)
     /\ Resolvable(packages[idx])
     /\ pc \in {"main", "failed"}) =>
        LET code == packages[idx][1]
            d    == packages[idx][2]
        IN  /\ pc = "failed" => err.exc \notin {"KeyError", "TypeError"}
            /\ code = "RUN" =>
                 training = [cls |-> "Running", action |-> d[1],
                             duration |-> d[2], weight |-> d[3]]
            /\ code = "WLK" =>
                 training = [cls |-> "SportsWalking", action |-> d[1],
                             duration |-> d[2], weight |-> d[3],
                             height |-> d[4]]
            /\ code = "SWM" =>
                 training = [cls |-> "Swimming", action |-> d[1],
                             duration |-> d[2], weight |-> d[3],
                             length_pool |-> d[4], count_pool |-> d[5]]

C3_Witness ==
    /\ pc = "main"
    /\ training.cls = "Swimming"
    /\ training.length_pool = 0
    /\ training.count_pool = 40

(* C4: for every Running object with duration > 0, the distance is         *)
(* action*0.65/1000, the mean speed is distance/duration, and the calories *)
(* are (18*speed + 1.79) * weight / 1000 * duration * 60.                  *)
C4_Running ==
    (Fresh /\ training.cls = "Running") =>
        LET distance == Div(Mul(Num(training.action), Dec(65, 100)), Num(1000))
            speed    == Div(distance, Num(training.duration))
            calories ==
                Mul(Mul(Div(Mul(Add(Mul(Num(18), speed), Dec(179, 100)),
                                Num(training.weight)),
                            Num(1000)),
                        Num(training.duration)),
                    Num(60))
        IN  /\ training.duration > 0
            /\ Same(info.distance, distance)
            /\ Same(info.speed, speed)
            /\ Same(info.calories, calories)
            /\ Same(get_distance(training), distance)
            /\ Same(get_mean_speed(training), speed)
            /\ Same(get_spent_calories(training), calories)

C4_Witness ==
    /\ Fresh
    /\ training.cls = "Running"
    /\ training.action = 15000
    /\ Same(info.calories, Dec(797805, 1000))

(* C5: for Swimming the mean speed is length_pool*count_pool/1000/duration *)
(* and does not depend on action: objects that differ only in action have  *)
(* the same mean speed and, the weight being the same, the same calories.  *)
C5_SwimmingSpeed ==
    (Fresh /\ training.cls = "Swimming") =>
        /\ Same(info.speed,
                Div(Div(Mul(Num(training.length_pool), Num(training.count_pool)),
                        Num(1000)),
                    Num(training.duration)))
        /\ \A a \in Values \cup {720, 721} :
              LET other == [training EXCEPT !.action = a]
              IN  /\ Same(get_mean_speed(other), info.speed)
                  /\ Same(get_spent_calories(other), info.calories)

C5_Witness ==
    /\ Fresh
    /\ training.cls = "Swimming"
    /\ training.action = 40
    /\ training.length_pool = 40
    /\ training.count_pool = 1
    /\ training.duration = 40

(* C6, as stated: the package SWM [720, 1, 80, 25, 40] yields distance     *)
(* 0.468, speed 1.0 and calories 336.0, and the printed line shows these   *)
(* values with 3 decimals.                                                 *)
C6_Original ==
    (Fresh /\ packages[idx - 1] = <<"SWM", <<720, 1, 80, 25, 40>> >>) =>
        /\ Same(info.distance, Dec(468, 1000))
        /\ Same(info.speed, Num(1))
        /\ Same(info.calories, Num(336))
        /\ Numerals(LastLine) =
             << <<49, 46, 48, 48, 48>>, <<48, 46, 52, 54, 56>>,
                <<49, 46, 48, 48, 48>>, <<51, 51, 54, 46, 48, 48, 48>> >>

(* C6, amended: the package SWM [720, 1, 80, 25, 40] yields distance       *)
(* 0.9936 (720 strokes of 1.38 m), speed 1.0 and calories 336.0, and the   *)
(* printed line shows duration 1.000, distance 0.994, speed 1.000 and      *)
(* calories 336.000.                                                       *)
C6_SwimmingPackage ==
    (Fresh /\ packages[idx - 1] = <<"SWM", <<720, 1, 80, 25, 40>> >>) =>
        /\ Same(info.distance, Dec(9936, 10000))
        /\ Same(info.speed, Num(1))
        /\ Same(info.calories, Num(336))
        /\ Numerals(LastLine) =
             << <<49, 46, 48, 48, 48>>, <<48, 46, 57, 57, 52>>,
                <<49, 46, 48, 48, 48>>, <<51, 51, 54, 46, 48, 48, 48>> >>

C6_Witness ==
    /\ Fresh
    /\ packages[idx - 1] = <<"SWM", <<720, 1, 80, 25, 40>> >>
    /\ Len(stdout) = idx - 1

(* C7: for every walking object with duration > 0 and height > 0 the       *)
(* calories are (0.035*weight + (speed*0.278)^2 / (height/100)             *)
(* * 0.029*weight) * duration * 60, the speed being the default            *)
(* action*0.65/1000/duration.                                              *)
C7_Walking ==
    (Fresh /\ training.cls = "SportsWalking") =>
        LET speed    == Div(Div(Mul(Num(training.action), Dec(65, 100)),
                                Num(1000)),
                            Num(training.duration))
            weight   == Num(training.weight)
            calories ==
                Mul(Mul(Add(Mul(Dec(35, 1000), weight),
                            Mul(Mul(Div(Pow2(Mul(speed, Dec(278, 1000))),
                                        Div(Num(training.height), Num(100))),
                                    Dec(29, 1000)),
                                weight)),
                        Num(training.duration)),
                    Num(60))
        IN  /\ training.duration > 0
            /\ training.height > 0
            /\ Same(info.speed, speed)
            /\ Same(get_mean_speed(training), speed)
            /\ Same(info.calories, calories)
            /\ Same(get_spent_calories(training), calories)

C7_Witness ==
    /\ Fresh
    /\ training.cls = "SportsWalking"
    /\ training.action = 9000
    /\ training.height = 180
    /\ Numerals(LastLine)[4] = <<51, 52, 57, 46, 50, 53, 50>>

(* The text the program prints around the values (U+0422 U+0438 U+043F     *)
(* ... : the Russian for "Workout type: ", "; Duration: ", " h.; Distance: *)
(* ", " km; Avg. speed: ", " km/h; Calories burned: ") and the English     *)
(* text of the same template.                                              *)
RussianText ==
    << <<1058, 1080, 1087, 32, 1090, 1088, 1077, 1085, 1080, 1088, 1086,
         1074, 1082, 1080, 58, 32>>,
       <<59, 32, 1044, 1083, 1080, 1090, 1077, 1083, 1100, 1085, 1086, 1089,
         1090, 1100, 58, 32>>,
       <<32, 1095, 46, 59, 32, 1044, 1080, 1089, 1090, 1072, 1085, 1094,
         1080, 1103, 58, 32>>,
       <<32, 1082, 1084, 59, 32, 1057, 1088, 46, 32, 1089, 1082, 1086, 1088,
         1086, 1089, 1090, 1100, 58, 32>>,
       <<32, 1082, 1084, 47, 1095, 59, 32, 1055, 1086, 1090, 1088, 1072,
         1095, 1077, 1085, 1086, 32, 1082, 1082, 1072, 1083, 58, 32>> >>

EnglishText ==
    << <<87, 111, 114, 107, 111, 117, 116, 32, 116, 121, 112, 101, 58, 32>>,
       <<59, 32, 68, 117, 114, 97, 116, 105, 111, 110, 58, 32>>,
       <<32, 104, 46, 59, 32, 68, 105, 115, 116, 97, 110, 99, 101, 58, 32>>,
       <<32, 107, 109, 59, 32, 65, 118, 103, 46, 32, 115, 112, 101, 101, 100,
         58, 32>>,
       <<32, 107, 109, 47, 104, 59, 32, 67, 97, 108, 111, 114, 105, 101, 115,
         32, 98, 117, 114, 110, 101, 100, 58, 32>> >>

(* The last line is the template with the given text around the type and   *)
(* four numerals, each with exactly 3 decimals and showing its value.       *)
LineFollows(text) ==
    LET nums == Numerals(LastLine)
    IN  /\ Len(nums) = 4
        /\ info.training_type = ClassName(training.cls)
        /\ LastLine = text[1] \o ClassName(training.cls)
                      \o text[2] \o nums[1] \o text[3] \o nums[2]
                      \o text[4] \o nums[3] \o text[5] \o nums[4] \o <<46>>
        /\ \A i \in 1..4 : ThreeDecimals(nums[i])
        /\ ShowsValue(nums[1], Num(training.duration))
        /\ ShowsValue(nums[2], info.distance)
        /\ ShowsValue(nums[3], info.speed)
        /\ ShowsValue(nums[4], info.calories)

(* C8, as stated: get_message returns "Workout type: {type}; Duration:     *)
(* {duration} h.; Distance: {distance} km; Avg. speed: {speed} km/h;       *)
(* Calories burned: {calories}." with each of the four numbers rendered    *)
(* with exactly 3 decimals and the type unchanged.                         *)
C8_Original == Fresh => LineFollows(EnglishText)

(* C8, amended: get_message returns the same template with the Russian     *)
(* text of the program around the values, each of the four numbers         *)
(* rendered with exactly 3 decimals (the value rounded to the nearest      *)
(* thousandth) and the type, the class name, unchanged.                    *)
C8_Message == Fresh => LineFollows(RussianText)

C8_Witness ==
    /\ Fresh
    /\ training.duration = 1
    /\ Numerals(LastLine)[1] = <<49, 46, 48, 48, 48>>
    /\ ~ThreeDecimals(BigDigits(info.calories.n))

(* A package whose processing fails: in read_package (unknown type, wrong  *)
(* number of values) or in the calculation (a division by zero).           *)
Failing(p) ==
    \/ ~Resolvable(p)
    \/ p[2][2] = 0
    \/ p[1] = "WLK" /\ p[2][4] = 0

Ended == pc \in {"done", "failed"}

(* C9, as stated: the pairs are processed in order, one line per resolved  *)
(* pair; the run fails at pair k exactly when resolving pair k fails       *)
(* (unknown type or wrong number of values), and if no pair fails to       *)
(* resolve the run ends successfully with one line per pair.               *)
C9_Original ==
    /\ Len(stdout) = idx - 1
    /\ pc = "failed" => ~Resolvable(packages[idx])
    /\ (Ended /\ \A j \in 1..Len(packages) : Resolvable(packages[j])) =>
          /\ pc = "done"
          /\ Len(stdout) = Len(packages)

(* C9, amended: the pairs are processed in order, one line per processed   *)
(* pair; if processing pair k fails (unknown type, wrong number of values, *)
(* or a division by zero in the calculation because the duration, or the   *)
(* height of a walk, is 0), the lines of pairs 1..k-1 have been printed,   *)
(* no line is printed for pair k or a later one and the run ends failed;   *)
(* if no pair fails the run ends successfully with one line per pair.      *)
(* Checked in every state (InOrder) and on every step (EndsThere): no step *)
(* leaves an ended run, and a step prints nothing or the line of the pair  *)
(* it has processed.                                                       *)
InOrder ==
    /\ Len(stdout) = idx - 1
    /\ \A j \in 1..(idx - 1) : ~Failing(packages[j])
    /\ pc = "failed" => idx <= Len(packages) /\ Failing(packages[idx])
    /\ pc = "done" => idx = Len(packages) + 1
    /\ Ended =>
          \A j \in 1..Len(stdout) :
              stdout[j] = get_message(show_training_info(
                              read_package(packages[j][1], packages[j][2])))

EndsThere ==
    /\ ~Ended
    /\ packages' = packages
    /\ \/ stdout' = stdout /\ idx' = idx
       \/ /\ Len(stdout') = Len(stdout) + 1
          /\ SubSeq(stdout', 1, Len(stdout)) = stdout
          /\ idx' = idx + 1
    /\ (pc = "read" /\ idx > Len(packages)) => pc' = "done"

C9_Driver == []InOrder /\ [][EndsThere]_vars

C9_Witness ==
    /\ pc = "failed"
    /\ Len(packages) = 3
    /\ idx = 2
    /\ Len(stdout) = 1
    /\ err.exc = "TypeError"

(* The values with which the formulas divide by zero. *)
DividesByZero(t) ==
    \/ t.duration = 0
    \/ t.cls = "SportsWalking" /\ t.height = 0

(* C10, as stated: for every object read_package returns, get_distance,    *)
(* get_mean_speed, get_spent_calories and show_training_info return a      *)
(* value without raising an error.                                         *)
C10_Original ==
    /\ pc = "main" =>
          /\ ~IsExc(get_distance(training))
          /\ ~IsExc(get_mean_speed(training))
          /\ ~IsExc(get_spent_calories(training))
          /\ ~IsExc(show_training_info(training))
    /\ pc = "failed" => err.exc # "ZeroDivisionError"

(* C10, amended: for every object read_package returns whose duration is   *)
(* not 0 and, for a walk, whose height is not 0, the four methods return a *)
(* value without raising an error; get_distance does so for every object.  *)
C10_NoErrors ==
    /\ pc = "main" =>
          /\ ~IsExc(get_distance(training))
          /\ ~DividesByZero(training) =>
                /\ ~IsExc(get_mean_speed(training))
                /\ ~IsExc(get_spent_calories(training))
                /\ ~IsExc(show_training_info(training))
    /\ (pc = "failed" /\ err.exc = "ZeroDivisionError") =>
          DividesByZero(training)

C10_Witness ==
    /\ Fresh
    /\ training.cls = "SportsWalking"
    /\ training.action = 0
    /\ training.weight = 0
    /\ training.height = 1
    /\ training.duration = 40
====
